---- MODULE Spec2Model ----
(***************************************************************************)
(* Order lifecycle of the premium store backend: carts and cart items,     *)
(* materialization of a cart into an order (OrderCreateSerializer), and    *)
(* the payment flow against the gateway (OrderViewSet.pay / callback).     *)
(*                                                                         *)
(* Every HTTP request is a process held in a slot of `req`.  A handler is  *)
(* cut into steps where the code leaves the database: between validate()   *)
(* and save() of OrderCreateSerializer (two separate calls of the view,    *)
(* only save() opens a transaction), and around each blocking call to the  *)
(* gateway.  A handler keeps the model instance it loaded (`order`) and    *)
(* Model.save() writes every column of that instance back.  An add-item    *)
(* request is cut between the SELECT and the write of                      *)
(* AddCartItemSerializer.create.  The phone flow (CustomerViewSet.me and   *)
(* verify_phone) is cut at every access to the cache and to the Customer   *)
(* row; `alone` of a request is history, not program state.                *)
(*                                                                         *)
(* Text values are sequences of one-character strings so that strip() and  *)
(* title() are computed; decimals are integers scaled by DecimalScale.     *)
(***************************************************************************)
EXTENDS Integers, Sequences, FiniteSets, TLC

NULL == "None"

\* ---------------------------------------------------------------- bounds
MaxCarts == 1
MaxOrders == 2
MaxCartItems == 2
MaxQuantity == 2
MaxRequests == 2
MaxAdminEdits == 2
\* orders that exist when the payment requests start
MaxPayOrders == 1

\* ------------------------------------------------------- program constants
ORDER_STATUS_PAID == "p"
ORDER_STATUS_UNPAID == "u"
ORDER_STATUS_CANCELED == "c"

HTTP_200_OK == 200
HTTP_201_CREATED == 201
HTTP_400_BAD_REQUEST == 400
HTTP_404_NOT_FOUND == 404
HTTP_500_INTERNAL_SERVER_ERROR == 500

\* code of a gateway answer that grants a payment session / a first verify
ZARINPAL_CODE_SUCCESS == 100
\* code of a verify answer for a payment that was verified before
ZARINPAL_CODE_VERIFIED == 101
\* int(total_price * 10): the gateway counts in tenths of the store's unit
SubunitFactor == 10

\* discount_percent has decimal_places=2: it is held in hundredths of a percent
PercentScale == 100
\* Decimal(100) of get_discounted_price
Hundred == 100
\* 1 - percent/100 is a whole number of 1/DecimalScale, and so is every
\* effective price: decimals are integers scaled by DecimalScale
DecimalScale == PercentScale * Hundred

\* ------------------------------------------------------------------- text
EmptyText == << >>
BlankText == <<" ">>
SomeText == <<"x">>

IsSpace(c) == c = " "

RECURSIVE LStrip(_)
LStrip(s) ==
    IF s = << >> THEN s
    ELSE IF IsSpace(Head(s)) THEN LStrip(Tail(s)) ELSE s

RECURSIVE RStrip(_)
RStrip(s) ==
    IF s = << >> THEN s
    ELSE IF IsSpace(s[Len(s)]) THEN RStrip(SubSeq(s, 1, Len(s) - 1)) ELSE s

\* str.strip()
Strip(s) == RStrip(LStrip(s))

\* str.replace('_', ' ')
ReplaceUnderscore(s) == [i \in 1..Len(s) |-> IF s[i] = "_" THEN " " ELSE s[i]]

Upper(c) ==
    CASE c = "e" -> "E"
      [] c = "m" -> "M"
      [] c = "u" -> "U"
      [] c = "n" -> "N"
      [] OTHER -> c

IsLetter(c) == c \in {"e", "m", "u", "n", "E", "M", "U", "N", "x"}

\* str.title(): the first letter of every run of letters is upper-cased
Title(s) ==
    [i \in 1..Len(s) |->
        IF IsLetter(s[i]) /\ (i = 1 \/ ~IsLetter(s[i - 1])) THEN Upper(s[i]) ELSE s[i]]

\* ---------------------------------------------------------------- catalog
Users == {"u1"}
Services == {"s1", "s2"}
DiscountIds == {"d10"}

FieldEmail == <<"e", "m">>
FieldUserName == <<"u", "_", "n">>
FieldOther == <<"x">>
LabelEmail == <<"E", "-", "m">>

\* the ServiceField rows of the catalog: s1 declares `em` with a label, s2
\* declares `u_n` without one; is_required is set by the administrator
DeclaredField(service) ==
    IF service = "s1"
    THEN [field_name |-> FieldEmail, label |-> LabelEmail]
    ELSE [field_name |-> FieldUserName, label |-> << >>]

\* list prices an administrator may set (decimal_places=0: whole numbers)
PriceValues == {1000, 1005}
\* discount percents an administrator may set, in hundredths of a percent
\* (10.00 and 100.00; the validators allow 0..100)
PercentValues == {10 * PercentScale, 100 * PercentScale}

\* ------------------------------------------------------------------ state
VARIABLES
    services,        \* Service rows: [price, discounts] by service
    discounts,       \* Discount rows: discount_percent by discount
    service_fields,  \* ServiceField rows [field_name, label, is_required] of every service
    customers,       \* Customer rows: [phone_number, is_phone_verified] by user
    cache,           \* django cache: the values of the keys that are alive
    carts,           \* primary keys of the Cart rows that exist
    carts_created,   \* how many cart ids (uuid4) were issued so far
    cart_items,      \* CartItem rows of every cart, in primary-key order
    orders,          \* Order rows, order id = position
    order_items,     \* OrderItem rows of every order, in primary-key order
    source_cart,     \* history: the cart id each order was materialized from
    req,             \* the requests in progress or answered, by slot
    admin_edits      \* how many catalog edits the administrator made

vars == <<services, discounts, service_fields, customers, cache, carts, carts_created,
          cart_items, orders, order_items, source_cart, req, admin_edits>>

catalog == <<services, discounts, service_fields, admin_edits>>
cart_tables == <<carts, carts_created, cart_items>>
order_tables == <<orders, order_items, source_cart>>

\* ------------------------------------------------------------ dictionaries
\* a JSON object is a function from its keys to its values
EmptyDict == << >>
\* the payloads a client sends as extra_data
RawExtraData ==
    { EmptyDict,
      FieldEmail :> SomeText,
      FieldEmail :> BlankText,
      FieldUserName :> EmptyText,
      (FieldUserName :> SomeText) @@ (FieldOther :> SomeText) }

\* `not value or str(value).strip() == ''` for value = extra_data.get(name)
IsBlank(extra_data, field_name) ==
    \/ field_name \notin DOMAIN extra_data
    \/ extra_data[field_name] = EmptyText
    \/ Strip(extra_data[field_name]) = EmptyText

\* field.label or field.field_name.replace('_', ' ').title()
LabelOf(field) ==
    IF field.label # << >> THEN field.label ELSE Title(ReplaceUnderscore(field.field_name))

\* every key of the payload is kept
CleanExtraDataMutant(raw, allowed_fields) == raw

\* {k: v for k, v in raw_extra_data.items() if k in allowed_fields}
CleanExtraData(raw, allowed_fields) ==
    [k \in (DOMAIN raw) \cap allowed_fields |-> raw[k]]

\* ---------------------------------------------------------------- pricing
\* Service.get_discounted_price, scaled by DecimalScale; service.discounts is
\* the key of the attached Discount row, NULL when none is attached
get_discounted_price(service, discount_rows) ==
    IF service.discounts # NULL
    THEN service.price * (DecimalScale - discount_rows[service.discounts])
    ELSE service.price * DecimalScale

RoundingModes == {"half_even", "half_up"}

\* what a DecimalField(decimal_places=0) column keeps of a decimal: Django's
\* format_number quantizes half-even, a numeric(10,0) column rounds half up
Quantize(scaled, mode) ==
    LET q == scaled \div DecimalScale
        r == scaled % DecimalScale
    IN  IF 2 * r < DecimalScale THEN q
        ELSE IF 2 * r > DecimalScale THEN q + 1
        ELSE IF mode = "half_even" /\ q % 2 = 0 THEN q
        ELSE q + 1

RECURSIVE SumSeq(_)
SumSeq(s) == IF s = << >> THEN 0 ELSE Head(s) + SumSeq(Tail(s))

\* the total follows the catalog: every item counts at the price its service
\* has now
get_total_order_price_live(items) ==
    SumSeq([i \in 1..Len(items) |->
              items[i].quantity
                * Quantize(get_discounted_price(services[items[i].service], discounts),
                           "half_even")])

\* sum(item.quantity * item.price for item in order.items.all())
get_total_order_price(items) ==
    SumSeq([i \in 1..Len(items) |-> items[i].quantity * items[i].price])

\* --------------------------------------------------------------- requests
Requests == 1..MaxRequests
CartIds == 1..MaxCarts
Authorities == {"A1", "A2"}
RefIds == {"R1"}

NoOrder ==
    [customer |-> NULL, status |-> NULL,
     payment_authority |-> NULL, payment_ref_id |-> NULL]

NoResponse ==
    [status |-> 0, detail |-> NULL, errors |-> << >>, order_id |-> 0,
     ref_id |-> NULL, payment_url |-> << >>, id |-> NULL, price |-> 0,
     discounted_price |-> 0]

\* no CartItem instance
NoItem == [service |-> NULL, quantity |-> 0, extra_data |-> << >>]

\* no Customer instance
NoCustomer == [phone_number |-> NULL, is_phone_verified |-> FALSE]

\* cache.get(key) of a key that is not alive returns None
CacheMiss == [found |-> FALSE, value |-> << >>]

\* the cache with no key alive
EmptyCache == [key \in {} |-> << >>]

Response(status, detail) == [NoResponse EXCEPT !.status = status, !.detail = detail]

Idle ==
    [op |-> NULL, pc |-> "idle", user |-> NULL, pk |-> 0, authority |-> NULL,
     status_param |-> NULL, order |-> NoOrder, amount |-> 0, sent |-> FALSE,
     quantity |-> 0, extra_data |-> << >>, item |-> 0, instance |-> NoItem,
     new_phone |-> NULL, code |-> << >>, stored_code |-> CacheMiss,
     pending_phone |-> CacheMiss, customer |-> NoCustomer, alone |-> TRUE,
     response |-> NoResponse]

\* a slot is free for a new request once its request was answered
Free(r) == req[r].pc \in {"idle", "done"}

Answer(r, record, response) ==
    req' = [req EXCEPT ![r] = [record EXCEPT !.pc = "done", !.response = response]]

\* the catalog the administrator has entered when the store opens: s1 costs
\* 1000 with the 10% discount, s2 costs 1005 without a discount, and no
\* field is required yet
InitCatalog ==
    /\ services = [s \in Services |->
                      IF s = "s1" THEN [price |-> 1000, discounts |-> "d10"]
                      ELSE [price |-> 1005, discounts |-> NULL]]
    /\ discounts = [d \in DiscountIds |-> 10 * PercentScale]
    /\ service_fields =
         [s \in Services |->
            {[field_name |-> DeclaredField(s).field_name,
              label |-> DeclaredField(s).label,
              is_required |-> FALSE]}]
    /\ admin_edits = 0

Init ==
    /\ InitCatalog
    /\ customers \in [Users -> {[phone_number |-> p, is_phone_verified |-> p # NULL] :
                                   p \in {NULL, "0912"}}]
    /\ cache = EmptyCache
    /\ carts = {}
    /\ carts_created = 0
    /\ cart_items = [c \in CartIds |-> << >>]
    /\ orders = << >>
    /\ order_items = << >>
    /\ source_cart = << >>
    /\ req = [r \in Requests |-> Idle]

\* ---------------------------------------------------------------- catalog
\* the administrator (ServiceViewSet for staff, the admin site) edits the
\* catalog; at most MaxAdminEdits edits are followed

\* Service.price is set
SetServicePrice(s, p) ==
    /\ admin_edits < MaxAdminEdits
    /\ services[s].price # p
    /\ services' = [services EXCEPT ![s].price = p]
    /\ admin_edits' = admin_edits + 1
    /\ UNCHANGED <<discounts, service_fields, customers, cache, cart_tables, order_tables, req>>

\* Service.discounts is attached, replaced or removed
SetServiceDiscount(s, d) ==
    /\ admin_edits < MaxAdminEdits
    /\ services[s].discounts # d
    /\ services' = [services EXCEPT ![s].discounts = d]
    /\ admin_edits' = admin_edits + 1
    /\ UNCHANGED <<discounts, service_fields, customers, cache, cart_tables, order_tables, req>>

\* Discount.discount_percent is set
SetDiscountPercent(d, percent) ==
    /\ admin_edits < MaxAdminEdits
    /\ discounts[d] # percent
    /\ discounts' = [discounts EXCEPT ![d] = percent]
    /\ admin_edits' = admin_edits + 1
    /\ UNCHANGED <<services, service_fields, customers, cache, cart_tables, order_tables, req>>

\* ServiceField.is_required of the fields of a service is set
SetFieldRequired(s, b) ==
    /\ admin_edits < MaxAdminEdits
    /\ \E f \in service_fields[s] : f.is_required # b
    /\ service_fields' =
         [service_fields EXCEPT ![s] = {[f EXCEPT !.is_required = b] : f \in service_fields[s]}]
    /\ admin_edits' = admin_edits + 1
    /\ UNCHANGED <<services, discounts, customers, cache, cart_tables, order_tables, req>>

\* list prices a Service row can hold: DecimalField(max_digits=10,
\* decimal_places=0) has no validator, so any whole number of up to ten digits
ListPrices == {-5, 0, 1000, 1005}

\* percents a Discount row can hold, in hundredths of a percent: two decimal
\* places, validators MinValueValidator(0) and MaxValueValidator(100)
DiscountPercents == {0, 1050, 3333, 100 * PercentScale}

\* ServiceViewSet.retrieve with ServiceSerializer: id, price and
\* discounted_price (get_discounted_price, in 1/DecimalScale) of the service
RetrieveService(r, s) ==
    /\ Free(r)
    /\ Answer(r, [Idle EXCEPT !.op = "retrieve"],
              [Response(HTTP_200_OK, "service") EXCEPT
                  !.id = s,
                  !.price = services[s].price,
                  !.discounted_price = get_discounted_price(services[s], discounts)])
    /\ UNCHANGED <<catalog, customers, cache, cart_tables, order_tables>>

\* the catalog holds any services and discounts that can be stored
InitPricing ==
    /\ services \in [Services -> [price : ListPrices, discounts : {NULL} \cup DiscountIds]]
    /\ discounts \in [DiscountIds -> DiscountPercents]
    /\ service_fields =
         [s \in Services |->
            {[field_name |-> DeclaredField(s).field_name,
              label |-> DeclaredField(s).label,
              is_required |-> FALSE]}]
    /\ admin_edits = 0
    /\ customers = [u \in Users |-> [phone_number |-> "0912", is_phone_verified |-> TRUE]]
    /\ cache = EmptyCache
    /\ carts = {}
    /\ carts_created = 0
    /\ cart_items = [c \in CartIds |-> << >>]
    /\ orders = << >>
    /\ order_items = << >>
    /\ source_cart = << >>
    /\ req = [r \in Requests |-> Idle]

NextPricing == \E r \in Requests, s \in Services : RetrieveService(r, s)

\* the effective price of every service that can be stored
SpecPricing == InitPricing /\ [][NextPricing]_vars

\* ------------------------------------------------------------------ carts
\* CartViewSet.create: a cart with a fresh uuid4 and no items
CreateCart ==
    /\ carts_created < MaxCarts
    /\ carts_created' = carts_created + 1
    /\ carts' = carts \cup {carts_created + 1}
    /\ UNCHANGED <<cart_items, catalog, customers, cache, order_tables, req>>

\* CartViewSet.destroy: the cart goes and its items with it (on_delete=CASCADE)
DestroyCart(c) ==
    /\ c \in carts
    /\ carts' = carts \ {c}
    /\ cart_items' = [cart_items EXCEPT ![c] = << >>]
    /\ UNCHANGED <<carts_created, catalog, customers, cache, order_tables, req>>

RemoveAt(s, i) == SubSeq(s, 1, i - 1) \o SubSeq(s, i + 1, Len(s))

\* CartItemViewSet.destroy
DestroyCartItem(c, i) ==
    /\ c \in carts
    /\ i \in 1..Len(cart_items[c])
    /\ cart_items' = [cart_items EXCEPT ![c] = RemoveAt(@, i)]
    /\ UNCHANGED <<carts, carts_created, catalog, customers, cache, order_tables, req>>

\* AddCartItemSerializer.validate: the labels of the required fields that the
\* cleaned extra_data leaves blank
AddCartItemMissing(fields, cleaned_extra_data) ==
    {LabelOf(f) : f \in {g \in fields : g.is_required /\ IsBlank(cleaned_extra_data, g.field_name)}}

AllowedFields(fields) == {f.field_name : f \in fields}

\* the filter leaves extra_data out: the first item of the service is taken
ExistingItemMutant(items, service, extra_data) ==
    LET found == {i \in 1..Len(items) : items[i].service = service}
    IN  IF found = {} THEN 0 ELSE CHOOSE i \in found : \A j \in found : i <= j

\* the position of the first item of the cart with this service and
\* extra_data, 0 when there is none (filter(...).first())
ExistingItem(items, service, extra_data) ==
    LET found == {i \in 1..Len(items) :
                    items[i].service = service /\ items[i].extra_data = extra_data}
    IN  IF found = {} THEN 0 ELSE CHOOSE i \in found : \A j \in found : i <= j

\* CartItemViewSet.create with AddCartItemSerializer: validate, then create;
\* a payload that validate rejects changes no row
AddCartItem(c, service, quantity, raw_is_null, raw_extra_data) ==
    LET fields == service_fields[service]
        cleaned == CleanExtraData(raw_extra_data, AllowedFields(fields))
        existing == ExistingItem(cart_items[c], service, cleaned)
    IN  /\ c \in carts
        /\ ~raw_is_null
        /\ AddCartItemMissing(fields, cleaned) = {}
        /\ IF existing # 0
           THEN /\ cart_items[c][existing].quantity + quantity <= MaxQuantity
                /\ cart_items' =
                     [cart_items EXCEPT ![c][existing].quantity = @ + quantity]
           ELSE /\ Len(cart_items[c]) < MaxCartItems
                /\ cart_items' =
                     [cart_items EXCEPT ![c] =
                        Append(@, [service |-> service, quantity |-> quantity,
                                   extra_data |-> cleaned])]
        /\ UNCHANGED <<carts, carts_created, catalog, customers, cache, order_tables, req>>

\* the cart requests step by step.  A CartItem row is known by its position
\* in the cart (its primary key order).  Each handler reads (the serializer's
\* validate and the SELECT of the row), then writes in a later statement; no
\* transaction and no lock spans the two.

\* unique_together (cart, service, extra_data): another row of the cart than
\* row i holds this service and extra_data
UniqueViolation(items, i, row) ==
    \E j \in 1..Len(items) :
        j # i /\ items[j].service = row.service /\ items[j].extra_data = row.extra_data

\* the answered request keeps its operation and its cart
Closed(me) == [Idle EXCEPT !.op = me.op, !.pk = me.pk]

\* the worker that takes the next cart request: the first one that is free
NextWorker(r) == Free(r) /\ \A other \in 1..(r - 1) : ~Free(other)

\* the rows the add requests in progress on cart c are about to insert
PendingInserts(c) ==
    Cardinality({r \in Requests :
        req[r].op = "add" /\ req[r].pc = "validated" /\ req[r].pk = c /\ req[r].item = 0})

\* CartItemViewSet.create up to the SELECT of AddCartItemSerializer.create:
\* validate, then filter(...).first(); with an existing item the instance
\* the handler holds already has `quantity += quantity`
AddCartItemValidate(r, c, service, quantity, raw_is_null, raw_extra_data) ==
    LET fields == service_fields[service]
        cleaned == CleanExtraData(raw_extra_data, AllowedFields(fields))
        existing == ExistingItem(cart_items[c], service, cleaned)
        me == [Idle EXCEPT !.op = "add", !.pk = c, !.quantity = quantity,
                           !.extra_data = cleaned,
                           !.instance = [service |-> service, quantity |-> quantity,
                                         extra_data |-> cleaned]]
    IN  /\ NextWorker(r)
        /\ c \in carts
        /\ IF raw_is_null
           THEN Answer(r, Closed(me), Response(HTTP_400_BAD_REQUEST, "extra_data_null"))
           ELSE IF AddCartItemMissing(fields, cleaned) # {}
           THEN Answer(r, Closed(me), Response(HTTP_400_BAD_REQUEST, "fields_missing"))
           ELSE IF existing # 0
           THEN /\ cart_items[c][existing].quantity + quantity <= MaxQuantity
                /\ req' = [req EXCEPT ![r] =
                             [me EXCEPT !.pc = "validated", !.item = existing,
                                        !.instance = [cart_items[c][existing] EXCEPT
                                                         !.quantity = @ + quantity]]]
           ELSE /\ Len(cart_items[c]) + PendingInserts(c) < MaxCartItems
                /\ req' = [req EXCEPT ![r] = [me EXCEPT !.pc = "validated"]]
        /\ UNCHANGED <<catalog, customers, cache, cart_tables, order_tables>>

\* AddCartItemSerializer.create from the write on: existing_item.save()
\* writes every column of the row it read, CartItem.objects.create inserts;
\* the unique index refuses a second row with the service and extra_data
AddCartItemCreate(r) ==
    LET me == req[r]
        c == me.pk
    IN  /\ me.op = "add" /\ me.pc = "validated"
        /\ IF UniqueViolation(cart_items[c], me.item, me.instance)
           THEN /\ Answer(r, Closed(me), Response(HTTP_500_INTERNAL_SERVER_ERROR, "integrity_error"))
                /\ UNCHANGED cart_items
           ELSE IF me.item # 0
           THEN /\ cart_items' = [cart_items EXCEPT ![c][me.item] = me.instance]
                /\ Answer(r, Closed(me), Response(HTTP_201_CREATED, "quantity_increased"))
           ELSE /\ cart_items' = [cart_items EXCEPT ![c] = Append(@, me.instance)]
                /\ Answer(r, Closed(me), Response(HTTP_201_CREATED, "created"))
        /\ UNCHANGED <<carts, carts_created, catalog, customers, cache, order_tables>>

\* UpdateCartItemSerializer.validate: the labels of the required fields that
\* the cleaned extra_data leaves blank
UpdateCartItemMissing(fields, cleaned_extra_data) ==
    {LabelOf(f) : f \in {g \in fields : g.is_required /\ IsBlank(cleaned_extra_data, g.field_name)}}

\* CartItemViewSet.partial_update with UpdateCartItemSerializer: get_object,
\* validate, then update, whose instance.save() writes every column.
\* quantity 0 stands for a PATCH without quantity, raw_is_null for one
\* without extra_data or with null.  The handler is followed as one step.
UpdateCartItem(r, c, i, quantity, raw_is_null, raw_extra_data) ==
    LET me == [Idle EXCEPT !.op = "update", !.pk = c]
    IN  /\ NextWorker(r)
        /\ c \in carts
        /\ IF i \notin 1..Len(cart_items[c])
           THEN /\ Answer(r, Closed(me), Response(HTTP_404_NOT_FOUND, "not_found"))
                /\ UNCHANGED cart_items
           ELSE LET instance == cart_items[c][i]
                    fields == service_fields[instance.service]
                    cleaned == CleanExtraData(raw_extra_data, AllowedFields(fields))
                    updated == [instance EXCEPT
                                   !.quantity = IF quantity # 0 THEN quantity ELSE @,
                                   !.extra_data = cleaned]
                IN  IF raw_is_null
                    THEN /\ Answer(r, Closed(me),
                                   Response(HTTP_400_BAD_REQUEST, "extra_data_null"))
                         /\ UNCHANGED cart_items
                    ELSE IF UpdateCartItemMissing(fields, cleaned) # {}
                    THEN /\ Answer(r, Closed(me),
                                   Response(HTTP_400_BAD_REQUEST, "fields_missing"))
                         /\ UNCHANGED cart_items
                    ELSE IF UniqueViolation(cart_items[c], i, updated)
                    THEN /\ Answer(r, Closed(me),
                                   Response(HTTP_500_INTERNAL_SERVER_ERROR, "integrity_error"))
                         /\ UNCHANGED cart_items
                    ELSE /\ cart_items' = [cart_items EXCEPT ![c][i] = updated]
                         /\ Answer(r, Closed(me), Response(HTTP_200_OK, "updated"))
        /\ UNCHANGED <<carts, carts_created, catalog, customers, cache, order_tables>>

\* ----------------------------------------------------------- materialize
\* the items were validated on insert and are not checked again
OrderItemMissingMutant(fields, extra_data) == {}

\* OrderCreateSerializer.validate, per item: the labels of the fields that are
\* required now and that the item's extra_data leaves blank
OrderItemMissing(fields, extra_data) ==
    {LabelOf(f) : f \in {g \in fields : g.is_required /\ IsBlank(extra_data, g.field_name)}}

\* OrderCreateSerializer.validate: one entry per item with a missing field,
\* in the order of the items
RECURSIVE missing_errors(_, _)

\* the loop over the items stops at the first item with a missing field
RECURSIVE missing_errors_first(_, _)
missing_errors_first(items, fields_of) ==
    IF items = << >> THEN << >>
    ELSE LET item == Head(items)
             missing == {LabelOf(f) : f \in {g \in fields_of[item.service] :
                            g.is_required /\ IsBlank(item.extra_data, g.field_name)}}
         IN  IF missing # {}
             THEN <<[service |-> item.service, missing |-> missing]>>
             ELSE missing_errors_first(Tail(items), fields_of)

missing_errors(items, fields_of) ==
    IF items = << >> THEN << >>
    ELSE LET item == Head(items)
             missing == OrderItemMissing(fields_of[item.service], item.extra_data)
             rest == missing_errors(Tail(items), fields_of)
         IN  IF missing # {}
             THEN <<[service |-> item.service, missing |-> missing]>> \o rest
             ELSE rest

\* OrderCreateSerializer.validate: the error it raises, NULL when it returns
ValidateCart(cart_id) ==
    IF cart_id \notin carts THEN "no_cart"
    ELSE IF cart_items[cart_id] = << >> THEN "cart_empty"
    ELSE IF missing_errors(cart_items[cart_id], service_fields) # << >> THEN "fields_missing"
    ELSE NULL

\* OrderViewSet.create up to serializer.is_valid(): the phone check and
\* OrderCreateSerializer.validate; nothing is written
CreateOrderValidate(r, user, cart_id) ==
    LET me == [Idle EXCEPT !.op = "create", !.user = user, !.pk = cart_id]
        error == ValidateCart(cart_id)
    IN  /\ Free(r)
        /\ IF customers[user].phone_number = NULL
           THEN Answer(r, me, Response(HTTP_400_BAD_REQUEST, "phone_number_required"))
           ELSE IF error # NULL
           THEN Answer(r, me,
                    [Response(HTTP_400_BAD_REQUEST, error) EXCEPT
                        !.errors = IF error = "fields_missing"
                                   THEN missing_errors(cart_items[cart_id], service_fields)
                                   ELSE << >>])
           ELSE req' = [req EXCEPT ![r] = [me EXCEPT !.pc = "validated"]]
        /\ UNCHANGED <<catalog, customers, cache, cart_tables, order_tables>>

\* the OrderItem rows save() builds from the CartItem rows it reads; the
\* price column keeps no decimal place
NewOrderItems(items, mode) ==
    [i \in 1..Len(items) |->
        [service |-> items[i].service,
         quantity |-> items[i].quantity,
         price |-> Quantize(get_discounted_price(services[items[i].service], discounts), mode),
         extra_data |-> items[i].extra_data]]

\* the Order row save() creates
NewOrder(user) ==
    [customer |-> user, status |-> ORDER_STATUS_UNPAID,
     payment_authority |-> NULL, payment_ref_id |-> NULL]

\* OrderCreateSerializer.save: one transaction that creates the order, copies
\* the items the cart has now, and deletes the cart
CreateOrderSave(r) ==
    LET me == req[r]
        cart_id == me.pk
    IN  /\ me.op = "create" /\ me.pc = "validated"
        /\ Len(orders) < MaxOrders
        /\ \E mode \in RoundingModes :
             order_items' = Append(order_items, NewOrderItems(cart_items[cart_id], mode))
        /\ orders' = Append(orders, NewOrder(me.user))
        /\ source_cart' = Append(source_cart, cart_id)
        /\ carts' = carts \ {cart_id}
        /\ cart_items' = [cart_items EXCEPT ![cart_id] = << >>]
        /\ Answer(r, me, [Response(HTTP_201_CREATED, "created") EXCEPT
                            !.order_id = Len(orders) + 1])
        /\ UNCHANGED <<carts_created, catalog, customers, cache>>

\* ---------------------------------------------------------------- gateway
\* what requests.post(...).json() gives the handler: an exception (network
\* error, body that is no JSON), a JSON object without 'data', one whose
\* 'data' is a list (no .get), or one whose 'data' is an object with a code
GatewayCodes == {ZARINPAL_CODE_SUCCESS, ZARINPAL_CODE_VERIFIED, -51}

GatewayResult(kind, code, authority, ref_id) ==
    [kind |-> kind, code |-> code, authority |-> authority, ref_id |-> ref_id]

FailedResults ==
    {GatewayResult(k, 0, NULL, NULL) : k \in {"exception", "no_data", "data_list"}}

\* answers to the session request of pay: 'data' carries code and authority
RequestResults ==
    FailedResults \cup {GatewayResult("data", c, a, NULL) : c \in GatewayCodes, a \in Authorities}

\* answers to the verify request of callback: 'data' carries code and ref_id
VerifyResults ==
    FailedResults
    \cup {GatewayResult("data", c, NULL, ref) : c \in GatewayCodes, ref \in RefIds \cup {NULL}}

\* requests.post or response.json() raised (the except branch of pay)
PayTransportFailed(result) == result.kind = "exception"

\* the exception is swallowed and the handler goes on with an empty result
VerifyTransportFailedMutant(result) == FALSE

\* requests.post or response.json() raised (the except branch of callback)
VerifyTransportFailed(result) == result.kind = "exception"

\* a session answer with code 101 is taken for a grant as well
PayGrantedMutant(result) ==
    result.kind = "data" /\ result.code \in {ZARINPAL_CODE_SUCCESS, ZARINPAL_CODE_VERIFIED}

\* 'data' in result and result['data'].get('code') == 100
PayGranted(result) == result.kind = "data" /\ result.code = ZARINPAL_CODE_SUCCESS

\* only code 100 is accepted
VerifyAcceptedMutant(result) == result.kind = "data" /\ result.code = ZARINPAL_CODE_SUCCESS

\* 'data' in result and result['data'].get('code') in [100, 101]
VerifyAccepted(result) ==
    result.kind = "data" /\ result.code \in {ZARINPAL_CODE_SUCCESS, ZARINPAL_CODE_VERIFIED}

\* the amount is taken from the prices the services have now
GatewayAmountLive(items) == get_total_order_price_live(items) * SubunitFactor

\* int(total_price * 10) over the order's items
GatewayAmount(items) == get_total_order_price(items) * SubunitFactor

\* -------------------------------------------------------------------- pay
\* OrderViewSet.pay up to requests.post: load the order, refuse an order that
\* is not unpaid, else send the session request and wait
PayRequest(r, user, pk) ==
    LET me == [Idle EXCEPT !.op = "pay", !.user = user, !.pk = pk]
    IN  /\ Free(r)
        /\ IF pk \notin 1..Len(orders) \/ orders[pk].customer # user
           THEN Answer(r, me, Response(HTTP_404_NOT_FOUND, "not_found"))
           ELSE IF orders[pk].status # ORDER_STATUS_UNPAID
           THEN Answer(r, [me EXCEPT !.order = orders[pk]],
                       Response(HTTP_400_BAD_REQUEST, "already_paid_or_cancelled"))
           ELSE req' = [req EXCEPT ![r] =
                          [me EXCEPT !.pc = "await_request",
                                     !.order = orders[pk],
                                     !.amount = GatewayAmount(order_items[pk]),
                                     !.sent = TRUE]]
        /\ UNCHANGED <<catalog, customers, cache, cart_tables, order_tables>>

\* Model.save() of the instance the handler holds: every column is written
SaveOrder(pk, instance) == orders' = [orders EXCEPT ![pk] = instance]

\* the order is marked paid as soon as the session is granted
PayStoredOrderMutant(order, authority) ==
    [order EXCEPT !.payment_authority = authority, !.status = ORDER_STATUS_PAID]

\* order.payment_authority = authority
PayStoredOrder(order, authority) == [order EXCEPT !.payment_authority = authority]

\* OrderViewSet.pay from the gateway's answer on
PayAnswer(r, result) ==
    LET me == req[r]
    IN  /\ me.op = "pay" /\ me.pc = "await_request"
        /\ IF PayTransportFailed(result)
           THEN /\ Answer(r, me, Response(HTTP_500_INTERNAL_SERVER_ERROR, "connect_error"))
                /\ UNCHANGED orders
           ELSE IF PayGranted(result)
           THEN LET order == PayStoredOrder(me.order, result.authority)
                IN  /\ SaveOrder(me.pk, order)
                    /\ Answer(r, [me EXCEPT !.order = order],
                              [Response(HTTP_200_OK, "payment_url") EXCEPT
                                  !.payment_url = <<"StartPay", result.authority>>])
           ELSE IF result.kind = "data_list"
           THEN /\ Answer(r, me, Response(HTTP_500_INTERNAL_SERVER_ERROR, "unhandled"))
                /\ UNCHANGED orders
           ELSE /\ Answer(r, me, Response(HTTP_400_BAD_REQUEST, "gateway_error"))
                /\ UNCHANGED orders
        /\ UNCHANGED <<order_items, source_cart, catalog, customers, cache, cart_tables>>

\* --------------------------------------------------------------- callback
\* the Status parameter the gateway or anyone else puts in the callback URL
\* (a missing parameter reads as None and is handled like any value but 'OK')
StatusParams == {"OK", "NOK"}

\* `and` in place of `or`: one matching factor is enough to go on
CallbackRejectsMutant(status_param, payment_authority, authority) ==
    status_param # "OK" /\ payment_authority # authority

\* status_param != 'OK' or order.payment_authority != authority
CallbackRejects(status_param, payment_authority, authority) ==
    status_param # "OK" \/ payment_authority # authority

\* order.status = Order.ORDER_STATUS_CANCELED
CallbackCanceledOrder(order) == [order EXCEPT !.status = ORDER_STATUS_CANCELED]

\* order.status = Order.ORDER_STATUS_PAID; order.payment_ref_id = ref_id
CallbackPaidOrder(order, ref_id) ==
    [order EXCEPT !.status = ORDER_STATUS_PAID, !.payment_ref_id = ref_id]

\* OrderViewSet.callback up to requests.post: load the order, cancel it when
\* the parameters do not match, else send the verify request and wait
CallbackRequest(r, pk, authority, status_param) ==
    LET me == [Idle EXCEPT !.op = "callback", !.pk = pk, !.authority = authority,
                           !.status_param = status_param]
    IN  /\ Free(r)
        /\ IF pk \notin 1..Len(orders)
           THEN /\ Answer(r, me, Response(HTTP_404_NOT_FOUND, "not_found"))
                /\ UNCHANGED orders
           ELSE IF CallbackRejects(status_param, orders[pk].payment_authority, authority)
           THEN LET order == CallbackCanceledOrder(orders[pk])
                IN  /\ SaveOrder(pk, order)
                    /\ Answer(r, [me EXCEPT !.order = order],
                              Response(HTTP_400_BAD_REQUEST, "unsuccessful_or_canceled"))
           ELSE /\ req' = [req EXCEPT ![r] =
                             [me EXCEPT !.pc = "await_verify",
                                        !.order = orders[pk],
                                        !.amount = GatewayAmount(order_items[pk]),
                                        !.sent = TRUE]]
                /\ UNCHANGED orders
        /\ UNCHANGED <<order_items, source_cart, catalog, customers, cache, cart_tables>>

\* OrderViewSet.callback from the gateway's answer on
CallbackAnswer(r, result) ==
    LET me == req[r]
    IN  /\ me.op = "callback" /\ me.pc = "await_verify"
        /\ IF VerifyTransportFailed(result)
           THEN /\ Answer(r, me, Response(HTTP_500_INTERNAL_SERVER_ERROR, "confirm_error"))
                /\ UNCHANGED orders
           ELSE IF VerifyAccepted(result)
           THEN LET order == CallbackPaidOrder(me.order, result.ref_id)
                IN  /\ SaveOrder(me.pk, order)
                    /\ Answer(r, [me EXCEPT !.order = order],
                              [Response(HTTP_200_OK, "confirmed") EXCEPT
                                  !.ref_id = result.ref_id])
           ELSE IF result.kind = "data_list"
           THEN /\ Answer(r, me, Response(HTTP_500_INTERNAL_SERVER_ERROR, "unhandled"))
                /\ UNCHANGED orders
           ELSE LET order == CallbackCanceledOrder(me.order)
                IN  /\ SaveOrder(me.pk, order)
                    /\ Answer(r, [me EXCEPT !.order = order],
                              Response(HTTP_400_BAD_REQUEST, "gateway_error"))
        /\ UNCHANGED <<order_items, source_cart, catalog, customers, cache, cart_tables>>

\* ------------------------------------------------- customers' phone numbers
\* the users of the phone flow and the numbers they enter
Accounts == {"u1", "u2"}
PhoneNumbers == {"0912", "0935"}
\* a PATCH of /customers/me/ without the phone_number key
Absent == "absent"

\* str(new_phone): the international text of a PhoneNumber
PhoneStr(phone) ==
    IF phone = "0912" THEN <<"+", "9", "8", "9", "1", "2">>
    ELSE <<"+", "9", "8", "9", "3", "5">>

\* PhoneNumberField turns the text assigned to customer.phone_number back
\* into a PhoneNumber
to_python(text) == CHOOSE phone \in PhoneNumbers : PhoneStr(phone) = text

\* str(random.randint(100000, 999999))
Codes == {<<"1", "0", "0", "0", "0", "0">>, <<"9", "9", "9", "9", "9", "9">>}
\* what a client posts to verify-phone: a code, or five characters
SubmittedCodes == Codes \cup {<<"1", "2", "3", "4", "5">>}
\* VerifySerializer.code: CharField(max_length=6, min_length=6)
CodeLength == 6

PendingPhoneKey(user) == <<"pending_phone", user>>
PhoneVerifyKey(user) == <<"phone_verify", user>>

cache_get(key) ==
    IF key \in DOMAIN cache THEN [found |-> TRUE, value |-> cache[key]] ELSE CacheMiss

cache_set(key, value) ==
    cache' = [k \in DOMAIN cache \cup {key} |-> IF k = key THEN value ELSE cache[k]]

cache_delete(key) == cache' = [k \in DOMAIN cache \ {key} |-> cache[k]]

\* truth value of what cache.get returned: None and '' are false
Truthy(entry) == entry.found /\ entry.value # << >>

\* phone_number is unique: another Customer row holds the number
PhoneTaken(user, phone) ==
    /\ phone # NULL
    /\ \E other \in DOMAIN customers \ {user} : customers[other].phone_number = phone

\* a request of the phone flow is in progress for the user
PhoneBusy(r, user) ==
    ~Free(r) /\ req[r].op \in {"me", "verify_phone"} /\ req[r].user = user

\* the request takes slot r; `alone` records that no other request of the
\* same user ran while this one was in progress
Begin(r, record) ==
    req' = [q \in Requests |->
              IF q = r
              THEN [record EXCEPT
                       !.alone = ~(\E other \in Requests \ {r} : PhoneBusy(other, record.user))]
              ELSE IF PhoneBusy(q, record.user)
              THEN [req[q] EXCEPT !.alone = FALSE]
              ELSE req[q]]

\* an answered request of the phone flow keeps its operation and its user
Answered(me, response) ==
    [Idle EXCEPT !.op = me.op, !.user = me.user, !.pc = "done", !.response = response]

Reply(r, me, response) == req' = [req EXCEPT ![r] = Answered(me, response)]

\* the timeout of 300 seconds of a key passes
CacheExpire(key) ==
    /\ key \in DOMAIN cache
    /\ cache_delete(key)
    /\ UNCHANGED <<catalog, customers, cart_tables, order_tables, req>>

\* CustomerAdmin: the administrator enters or clears the number of a customer
\* (the form refuses a number another customer holds)
SetCustomerPhone(user, phone) ==
    /\ admin_edits < MaxAdminEdits
    /\ customers[user].phone_number # phone
    /\ ~PhoneTaken(user, phone)
    /\ customers' = [customers EXCEPT ![user].phone_number = phone]
    /\ admin_edits' = admin_edits + 1
    /\ UNCHANGED <<services, discounts, service_fields, cache, cart_tables, order_tables, req>>

\* CustomerViewSet.me (PATCH, PUT) up to the first cache.set: load the
\* customer, validate the body, save at once when no new number is given
MeRequest(r, user, body) ==
    LET customer == customers[user]
        me == [Idle EXCEPT !.op = "me", !.user = user, !.new_phone = body,
                           !.customer = customer]
    IN  /\ NextWorker(r)
        /\ IF body \in PhoneNumbers /\ PhoneTaken(user, body)
           THEN /\ Begin(r, Answered(me, Response(HTTP_400_BAD_REQUEST, "phone_number_unique")))
                /\ UNCHANGED customers
           ELSE IF body \in PhoneNumbers /\ body = customer.phone_number
           THEN /\ Begin(r, Answered(me, Response(HTTP_200_OK, "same_number")))
                /\ UNCHANGED customers
           ELSE IF body \in PhoneNumbers
           THEN /\ \E code \in Codes :
                      Begin(r, [me EXCEPT !.pc = "set_pending", !.code = code])
                /\ UNCHANGED customers
           ELSE /\ customers' =
                     [customers EXCEPT ![user] =
                         IF body = NULL THEN [customer EXCEPT !.phone_number = NULL]
                         ELSE customer]
                /\ Begin(r, Answered(me, Response(HTTP_200_OK, "saved")))
        /\ UNCHANGED <<catalog, cache, cart_tables, order_tables>>

\* cache.set(f'pending_phone_{request.user.id}', str(new_phone), 300)
MeSetPending(r) ==
    LET me == req[r]
    IN  /\ me.op = "me" /\ me.pc = "set_pending"
        /\ cache_set(PendingPhoneKey(me.user), PhoneStr(me.new_phone))
        /\ req' = [req EXCEPT ![r].pc = "set_code"]
        /\ UNCHANGED <<catalog, customers, cart_tables, order_tables>>

\* cache.set(f'phone_verify_{request.user.id}', code, 300); the SMS is sent
\* in the background and not awaited
MeSetCode(r) ==
    LET me == req[r]
    IN  /\ me.op = "me" /\ me.pc = "set_code"
        /\ cache_set(PhoneVerifyKey(me.user), me.code)
        /\ req' = [req EXCEPT ![r].pc = "save"]
        /\ UNCHANGED <<catalog, customers, cart_tables, order_tables>>

\* serializer.save() after phone_number was popped: Model.save() writes every
\* column of the customer loaded at the start
MeSave(r) ==
    LET me == req[r]
    IN  /\ me.op = "me" /\ me.pc = "save"
        /\ IF PhoneTaken(me.user, me.customer.phone_number)
           THEN /\ Reply(r, me, Response(HTTP_500_INTERNAL_SERVER_ERROR, "integrity_error"))
                /\ UNCHANGED customers
           ELSE /\ customers' = [customers EXCEPT ![me.user] = me.customer]
                /\ Reply(r, me, Response(HTTP_200_OK, "code_sent"))
        /\ UNCHANGED <<catalog, cache, cart_tables, order_tables>>

\* CustomerViewSet.verify_phone up to the first cache.get: validate the code
\* and read the stored code
VerifyPhoneRequest(r, user, code) ==
    LET me == [Idle EXCEPT !.op = "verify_phone", !.user = user, !.code = code]
    IN  /\ NextWorker(r)
        /\ IF Len(code) # CodeLength
           THEN Begin(r, Answered(me, Response(HTTP_400_BAD_REQUEST, "invalid")))
           ELSE Begin(r, [me EXCEPT !.pc = "get_pending",
                                    !.stored_code = cache_get(PhoneVerifyKey(user))])
        /\ UNCHANGED <<catalog, customers, cache, cart_tables, order_tables>>

\* pending_phone = cache.get(f'pending_phone_{request.user.id}')
VerifyPhoneGetPending(r) ==
    LET me == req[r]
    IN  /\ me.op = "verify_phone" /\ me.pc = "get_pending"
        /\ req' = [req EXCEPT ![r].pc = "decide",
                              ![r].pending_phone = cache_get(PendingPhoneKey(me.user))]
        /\ UNCHANGED <<catalog, customers, cache, cart_tables, order_tables>>

\* any code is accepted while a code and a pending number are stored
VerifyPhoneAcceptsMutant(code, stored_code, pending_phone) ==
    /\ Truthy(stored_code)
    /\ Truthy(pending_phone)

\* if stored_code and code == stored_code and pending_phone
VerifyPhoneAccepts(code, stored_code, pending_phone) ==
    /\ Truthy(stored_code)
    /\ code = stored_code.value
    /\ Truthy(pending_phone)

\* the branch of verify_phone: load the customer, set the number and the
\* flag, save; or answer 400
VerifyPhoneSave(r) ==
    LET me == req[r]
    IN  /\ me.op = "verify_phone" /\ me.pc = "decide"
        /\ IF VerifyPhoneAccepts(me.code, me.stored_code, me.pending_phone)
           THEN LET customer == [customers[me.user] EXCEPT
                                    !.phone_number = to_python(me.pending_phone.value),
                                    !.is_phone_verified = TRUE]
                IN  IF PhoneTaken(me.user, customer.phone_number)
                    THEN /\ Reply(r, me, Response(HTTP_500_INTERNAL_SERVER_ERROR, "integrity_error"))
                         /\ UNCHANGED customers
                    ELSE /\ customers' = [customers EXCEPT ![me.user] = customer]
                         /\ req' = [req EXCEPT ![r].pc = "delete_code"]
           ELSE /\ Reply(r, me, Response(HTTP_400_BAD_REQUEST, "invalid_or_expired"))
                /\ UNCHANGED customers
        /\ UNCHANGED <<catalog, cache, cart_tables, order_tables>>

\* cache.delete(f'phone_verify_{request.user.id}')
VerifyPhoneDeleteCode(r) ==
    LET me == req[r]
    IN  /\ me.op = "verify_phone" /\ me.pc = "delete_code"
        /\ cache_delete(PhoneVerifyKey(me.user))
        /\ req' = [req EXCEPT ![r].pc = "delete_pending"]
        /\ UNCHANGED <<catalog, customers, cart_tables, order_tables>>

\* cache.delete(f'pending_phone_{request.user.id}') and the answer
VerifyPhoneDeletePending(r) ==
    LET me == req[r]
    IN  /\ me.op = "verify_phone" /\ me.pc = "delete_pending"
        /\ cache_delete(PendingPhoneKey(me.user))
        /\ Reply(r, me, Response(HTTP_200_OK, "verified"))
        /\ UNCHANGED <<catalog, customers, cart_tables, order_tables>>

\* ------------------------------------------------------------------- next
\* catalog edits, cart requests and order creation
NextCheckout ==
    \/ \E s \in Services, p \in PriceValues : SetServicePrice(s, p)
    \/ \E s \in Services, d \in {NULL} \cup DiscountIds : SetServiceDiscount(s, d)
    \/ \E d \in DiscountIds, percent \in PercentValues : SetDiscountPercent(d, percent)
    \/ \E s \in Services, b \in BOOLEAN : SetFieldRequired(s, b)
    \/ CreateCart
    \/ \E c \in CartIds : DestroyCart(c)
    \/ \E c \in CartIds, i \in 1..MaxCartItems : DestroyCartItem(c, i)
    \/ \E c \in CartIds, s \in Services, q \in 1..MaxQuantity, raw \in RawExtraData :
          AddCartItem(c, s, q, FALSE, raw)
    \/ \E r \in Requests, u \in Users, c \in CartIds : CreateOrderValidate(r, u, c)
    \/ \E r \in Requests : CreateOrderSave(r)

\* the payment requests on the orders
NextPayment ==
    \/ \E r \in Requests, u \in Users, pk \in 1..MaxOrders : PayRequest(r, u, pk)
    \/ \E r \in Requests, result \in RequestResults : PayAnswer(r, result)
    \/ \E r \in Requests, pk \in 1..MaxOrders, a \in Authorities \cup {NULL},
           st \in StatusParams : CallbackRequest(r, pk, a, st)
    \/ \E r \in Requests, result \in VerifyResults : CallbackAnswer(r, result)

Next == NextCheckout \/ NextPayment

Spec == Init /\ [][Next]_vars

\* carts that were checked out before the payment requests start
CheckedOutCarts ==
    { <<[service |-> "s1", quantity |-> 1, extra_data |-> FieldEmail :> SomeText]>>,
      <<[service |-> "s2", quantity |-> 2, extra_data |-> EmptyDict]>> }

\* the store after 1..MaxPayOrders carts were materialized by CreateOrderSave:
\* fresh orders with their items, the carts gone, every request answered
InitPayment ==
    /\ InitCatalog
    /\ customers = [u \in Users |-> [phone_number |-> "0912", is_phone_verified |-> TRUE]]
    /\ \E n \in 1..MaxPayOrders :
         /\ orders = [i \in 1..n |-> NewOrder("u1")]
         /\ order_items \in [1..n -> {NewOrderItems(c, "half_even") : c \in CheckedOutCarts}]
         /\ source_cart = [i \in 1..n |-> i]
         /\ carts_created = n
    /\ cache = EmptyCache
    /\ carts = {}
    /\ cart_items = [c \in CartIds |-> << >>]
    /\ req = [r \in Requests |-> Idle]

\* the payment flow on orders that exist
SpecPayment == InitPayment /\ [][NextPayment]_vars

\* the payment requests on the orders that exist, the callbacks carrying the
\* authority A1, while the administrator changes prices and discounts
NextPayCatalog ==
    \/ \E r \in Requests, u \in Users, pk \in 1..MaxPayOrders : PayRequest(r, u, pk)
    \/ \E r \in Requests, result \in RequestResults : PayAnswer(r, result)
    \/ \E r \in Requests, pk \in 1..MaxPayOrders, st \in StatusParams :
          CallbackRequest(r, pk, "A1", st)
    \/ \E r \in Requests, result \in VerifyResults : CallbackAnswer(r, result)
    \/ \E s \in Services, p \in PriceValues : SetServicePrice(s, p)
    \/ \E s \in Services, d \in {NULL} \cup DiscountIds : SetServiceDiscount(s, d)
    \/ \E d \in DiscountIds, percent \in PercentValues : SetDiscountPercent(d, percent)

SpecPayCatalog == InitPayment /\ [][NextPayCatalog]_vars

\* the store from its first cart to its orders, payment left out
SpecCheckout == Init /\ [][NextCheckout]_vars

\* the bodies of the cart requests: a JSON object, or none (a body without
\* extra_data in a PATCH, or with null)
CartPayloads ==
    {[raw_is_null |-> FALSE, raw_extra_data |-> raw] : raw \in RawExtraData}
    \cup {[raw_is_null |-> TRUE, raw_extra_data |-> EmptyDict]}

\* the cart requests in steps, with the administrator changing is_required
NextCart ==
    \/ \E s \in Services, b \in BOOLEAN : SetFieldRequired(s, b)
    \/ CreateCart
    \/ \E r \in Requests, c \in CartIds, s \in Services, q \in 1..MaxQuantity,
           body \in CartPayloads :
          AddCartItemValidate(r, c, s, q, body.raw_is_null, body.raw_extra_data)
    \/ \E r \in Requests : AddCartItemCreate(r)
    \/ \E r \in Requests, c \in CartIds, i \in 1..MaxCartItems, q \in 0..MaxQuantity,
           body \in CartPayloads :
          UpdateCartItem(r, c, i, q, body.raw_is_null, body.raw_extra_data)

InitCart ==
    /\ InitCatalog
    /\ customers = [u \in Users |-> [phone_number |-> "0912", is_phone_verified |-> TRUE]]
    /\ cache = EmptyCache
    /\ carts = {}
    /\ carts_created = 0
    /\ cart_items = [c \in CartIds |-> << >>]
    /\ orders = << >>
    /\ order_items = << >>
    /\ source_cart = << >>
    /\ req = [r \in Requests |-> Idle]

\* concurrent add-item and update-item requests on the carts
SpecCart == InitCart /\ [][NextCart]_vars

\* the keys of the cache that the phone flow writes
PhoneKeys == {PendingPhoneKey(u) : u \in Accounts} \cup {PhoneVerifyKey(u) : u \in Accounts}

\* the customer who changes the number, and the other customer
PhoneClient == "u1"
OtherCustomer == "u2"

\* what is left in the cache of a me request of the other customer once the
\* pending number, which was set first, has timed out
OtherPending ==
    [key \in {PhoneVerifyKey(OtherCustomer)} |-> <<"9", "9", "9", "9", "9", "9">>]

\* the requests of one customer's phone flow, the timeouts of the cache, and
\* the administrator entering the other customer's number
NextPhone ==
    \/ \E r \in Requests, body \in PhoneNumbers \cup {NULL, Absent} :
          MeRequest(r, PhoneClient, body)
    \/ \E r \in Requests : MeSetPending(r)
    \/ \E r \in Requests : MeSetCode(r)
    \/ \E r \in Requests : MeSave(r)
    \/ \E r \in Requests, code \in SubmittedCodes : VerifyPhoneRequest(r, PhoneClient, code)
    \/ \E r \in Requests : VerifyPhoneGetPending(r)
    \/ \E r \in Requests : VerifyPhoneSave(r)
    \/ \E r \in Requests : VerifyPhoneDeleteCode(r)
    \/ \E r \in Requests : VerifyPhoneDeletePending(r)
    \/ \E key \in PhoneKeys : CacheExpire(key)
    \/ SetCustomerPhone(OtherCustomer, "0935")

\* the customer has no number, a verified one or one not verified yet; the
\* other customer has no number and has asked for one
InitPhone ==
    /\ InitCatalog
    /\ customers \in [Accounts -> {NoCustomer,
                                   [phone_number |-> "0912", is_phone_verified |-> TRUE],
                                   [phone_number |-> "0935", is_phone_verified |-> FALSE]}]
    /\ customers[OtherCustomer] = NoCustomer
    /\ cache = OtherPending
    /\ carts = {}
    /\ carts_created = 0
    /\ cart_items = [c \in CartIds |-> << >>]
    /\ orders = << >>
    /\ order_items = << >>
    /\ source_cart = << >>
    /\ req = [r \in Requests |-> Idle]

\* concurrent me and verify-phone requests of a customer
SpecPhone == InitPhone /\ [][NextPhone]_vars

\* =================================================================== claims
OrderIds == DOMAIN orders
Terminal(status) == status \in {ORDER_STATUS_PAID, ORDER_STATUS_CANCELED}

\* the step is the first step of a pay / callback request in slot r (the
\* parameters of the request are those its record shows afterwards)
PayRequestBy(r) ==
    Free(r) /\ req'[r].op = "pay" /\ PayRequest(r, req'[r].user, req'[r].pk)
CallbackRequestBy(r) ==
    /\ Free(r) /\ req'[r].op = "callback"
    /\ CallbackRequest(r, req'[r].pk, req'[r].authority, req'[r].status_param)

\* the step is the second step of the pay / callback request in slot r
PayAnswerBy(r, result) == req[r].pc = "await_request" /\ PayAnswer(r, result)
CallbackAnswerBy(r, result) == req[r].pc = "await_verify" /\ CallbackAnswer(r, result)

\* the step is a step of a Pay or of a Callback on order pk
PaymentStepOn(pk) ==
    \E r \in Requests :
        \/ req'[r].pk = pk /\ (PayRequestBy(r) \/ CallbackRequestBy(r))
        \/ req[r].pk = pk /\ \E result \in RequestResults : PayAnswerBy(r, result)
        \/ req[r].pk = pk /\ \E result \in VerifyResults : CallbackAnswerBy(r, result)

\* C1: paid and canceled are terminal: no step of a Pay or a Callback on an
\* order whose status is paid or canceled changes that status, whatever the
\* parameters and the gateway's answer.
C1_TerminalStatus ==
    [][\A pk \in OrderIds :
         (Terminal(orders[pk].status) /\ orders'[pk].status # orders[pk].status)
            => ~PaymentStepOn(pk)]_vars

\* C2: a Callback on an unpaid order whose Status is not 'OK', or whose
\* Authority differs from the stored payment_authority, sets the order to
\* canceled, answers with a failure, never makes it paid, and sends no verify
\* request.
C2_MismatchCancels ==
    [][\A r \in Requests :
         ( /\ CallbackRequestBy(r)
           /\ req'[r].pk \in OrderIds
           /\ orders[req'[r].pk].status = ORDER_STATUS_UNPAID
           /\ \/ req'[r].status_param # "OK"
              \/ req'[r].authority # orders[req'[r].pk].payment_authority )
         => ( /\ orders'[req'[r].pk].status = ORDER_STATUS_CANCELED
              /\ req'[r].pc = "done"
              /\ req'[r].response.status = HTTP_400_BAD_REQUEST
              /\ ~req'[r].sent )]_vars

\* a callback with Status OK and a wrong Authority was answered: the order is
\* canceled and no verify request went out
C2_Witness ==
    \E r \in Requests :
        /\ req[r].op = "callback" /\ req[r].pc = "done"
        /\ req[r].status_param = "OK"
        /\ req[r].authority = "A2" /\ req[r].order.payment_authority = "A1"
        /\ req[r].response.status = HTTP_400_BAD_REQUEST
        /\ ~req[r].sent
        /\ orders[req[r].pk].status = ORDER_STATUS_CANCELED

\* C3: for a Callback that loaded an unpaid order and passed both checks, the
\* code of the verify answer decides: 100 or 101 makes the order paid and
\* stores the answer's ref_id, any other code makes it canceled and leaves
\* payment_ref_id unset.
C3_VerifyCodeDecides ==
    [][\A r \in Requests, result \in VerifyResults :
         ( /\ CallbackAnswerBy(r, result)
           /\ result.kind = "data"
           /\ req[r].order.status = ORDER_STATUS_UNPAID )
         => IF result.code \in {100, 101}
            THEN /\ orders'[req[r].pk].status = ORDER_STATUS_PAID
                 /\ orders'[req[r].pk].payment_ref_id = result.ref_id
                 /\ req'[r].response.status = HTTP_200_OK
            ELSE /\ orders'[req[r].pk].status = ORDER_STATUS_CANCELED
                 /\ orders'[req[r].pk].payment_ref_id = NULL
                 /\ req'[r].response.status = HTTP_400_BAD_REQUEST]_vars

\* a callback was verified with the gateway and the order is paid with the
\* gateway's reference id
C3_Witness ==
    \E r \in Requests :
        /\ req[r].op = "callback" /\ req[r].pc = "done" /\ req[r].sent
        /\ req[r].response.status = HTTP_200_OK
        /\ req[r].response.ref_id = "R1"
        /\ orders[req[r].pk].status = ORDER_STATUS_PAID
        /\ orders[req[r].pk].payment_ref_id = "R1"
        /\ orders[req[r].pk].payment_authority = "A1"

TransportFailure == GatewayResult("exception", 0, NULL, NULL)

\* C4 as claimed: when the verify request of a Callback that loaded an unpaid
\* order and passed both checks fails in transport, the order becomes
\* canceled.
C4_TransportFailureCancels ==
    [][\A r \in Requests :
         (CallbackAnswerBy(r, TransportFailure) /\ req[r].order.status = ORDER_STATUS_UNPAID)
            => orders'[req[r].pk].status = ORDER_STATUS_CANCELED]_vars

\* C4 as amended: when the verify request of a Callback that loaded an unpaid
\* order and passed both checks fails in transport, the callback writes
\* nothing (the order keeps its status) and answers with a 500-class error.
C4_TransportFailureKeepsOrder ==
    [][\A r \in Requests :
         (CallbackAnswerBy(r, TransportFailure) /\ req[r].order.status = ORDER_STATUS_UNPAID)
            => ( /\ orders' = orders
                 /\ req'[r].pc = "done"
                 /\ req'[r].response.status = HTTP_500_INTERNAL_SERVER_ERROR )]_vars

\* a callback that passed both checks was answered 500 after its verify
\* request failed, and the order is still unpaid
C4_Witness ==
    \E r \in Requests :
        /\ req[r].op = "callback" /\ req[r].pc = "done" /\ req[r].sent
        /\ req[r].status_param = "OK" /\ req[r].authority = "A1"
        /\ req[r].response.status = HTTP_500_INTERNAL_SERVER_ERROR
        /\ req[r].response.detail = "confirm_error"
        /\ orders[req[r].pk].status = ORDER_STATUS_UNPAID
        /\ orders[req[r].pk].payment_authority = "A1"

\* C5: every failing Pay leaves the Order rows as they are; Pay on a paid or
\* canceled order answers 400 without a request to the gateway, a transport
\* failure of the session request answers 500, and a gateway answer whose
\* code is not 100 answers 400.
C5_FailingPayChangesNothing ==
    [][\A r \in Requests :
         /\ PayRequestBy(r) /\ req'[r].pc = "done" => orders' = orders
         /\ ( /\ PayRequestBy(r)
              /\ req'[r].pk \in OrderIds
              /\ Terminal(orders[req'[r].pk].status) )
            => ( /\ req'[r].pc = "done"
                 /\ req'[r].response.status = HTTP_400_BAD_REQUEST
                 /\ ~req'[r].sent )
         /\ \A result \in RequestResults :
              PayAnswerBy(r, result) =>
                 /\ req'[r].response.status # HTTP_200_OK => orders' = orders
                 /\ result.kind = "exception"
                       => req'[r].response.status = HTTP_500_INTERNAL_SERVER_ERROR
                 /\ (result.kind = "data" /\ result.code # 100)
                       => req'[r].response.status = HTTP_400_BAD_REQUEST]_vars

\* a Pay on a paid order was refused with 400 and sent nothing to the gateway
C5_Witness ==
    \E r \in Requests :
        /\ req[r].op = "pay" /\ req[r].pc = "done"
        /\ req[r].order.status = ORDER_STATUS_PAID
        /\ req[r].response.status = HTTP_400_BAD_REQUEST
        /\ ~req[r].sent
        /\ orders[req[r].pk].status = ORDER_STATUS_PAID

\* C6: a successful Pay on an order that is unpaid stores the authority the
\* gateway issued as payment_authority and changes no other column and no
\* other row (status stays unpaid, payment_ref_id stays unset); and an order
\* becomes paid only in the last step of a Callback, never in a Pay.
C6_PayStoresAuthorityOnly ==
    [][ /\ \A r \in Requests, result \in RequestResults :
            ( /\ PayAnswerBy(r, result)
              /\ req'[r].response.status = HTTP_200_OK
              /\ orders[req[r].pk].status = ORDER_STATUS_UNPAID )
            => ( /\ orders' = [orders EXCEPT ![req[r].pk].payment_authority = result.authority]
                 /\ orders'[req[r].pk].status = ORDER_STATUS_UNPAID
                 /\ orders'[req[r].pk].payment_ref_id = NULL
                 /\ order_items' = order_items )
        /\ \A pk \in OrderIds :
            (orders'[pk].status = ORDER_STATUS_PAID /\ orders[pk].status # ORDER_STATUS_PAID)
            => \E r \in Requests, result \in VerifyResults :
                  req[r].pk = pk /\ CallbackAnswerBy(r, result) ]_vars

\* a Pay was granted: the order holds the authority, is unpaid and has no
\* reference id
C6_Witness ==
    \E r \in Requests :
        /\ req[r].op = "pay" /\ req[r].pc = "done"
        /\ req[r].response.status = HTTP_200_OK
        /\ req[r].response.payment_url = <<"StartPay", "A1">>
        /\ orders[req[r].pk].payment_authority = "A1"
        /\ orders[req[r].pk].status = ORDER_STATUS_UNPAID
        /\ orders[req[r].pk].payment_ref_id = NULL

\* ------------------------------------------------------ claims of checkout
\* the step is the first / second step of a create request in slot r
CreateValidateBy(r) ==
    Free(r) /\ req'[r].op = "create" /\ CreateOrderValidate(r, req'[r].user, req'[r].pk)
CreateSaveBy(r) == req[r].op = "create" /\ req[r].pc = "validated" /\ CreateOrderSave(r)

\* the value is there and has a character that is no space
HasValue(extra_data, field_name) ==
    /\ field_name \in DOMAIN extra_data
    /\ \E k \in 1..Len(extra_data[field_name]) : extra_data[field_name][k] # " "

\* the fields of the item's service that are required now and have no value
Lacking(item) ==
    {f \in service_fields[item.service] : f.is_required /\ ~HasValue(item.extra_data, f.field_name)}

\* the name a field goes by in messages: its label, else its name in words
DisplayName(f) ==
    IF f.label # << >> THEN f.label
    ELSE IF f.field_name = FieldUserName THEN <<"U", " ", "N">>
    ELSE <<"E", "m">>

FailingItems(items) == {i \in 1..Len(items) : Lacking(items[i]) # {}}

\* C7: materializing a cart in which some item lacks a non-blank value for a
\* field its service requires fails in validation with one error that names,
\* for every failing item, its service and its missing fields; no Order and
\* no Order Item is created and the cart keeps all its items.
C7_InvalidCartRejected ==
    [][\A r \in Requests :
         LET c == req'[r].pk
             items == cart_items[c]
             errors == req'[r].response.errors
         IN  ( /\ CreateValidateBy(r)
               /\ customers[req'[r].user].phone_number # NULL
               /\ c \in carts
               /\ FailingItems(items) # {} )
             => ( /\ req'[r].pc = "done"
                  /\ req'[r].response.status = HTTP_400_BAD_REQUEST
                  /\ Len(errors) = Cardinality(FailingItems(items))
                  /\ \A i \in FailingItems(items) :
                       \E k \in 1..Len(errors) :
                          /\ errors[k].service = items[i].service
                          /\ errors[k].missing = {DisplayName(f) : f \in Lacking(items[i])}
                  /\ UNCHANGED <<orders, order_items, carts, cart_items>> )]_vars

\* a materialize was refused with an error that names two services, and the
\* cart still has its two items
C7_Witness ==
    \E r \in Requests :
        /\ req[r].op = "create" /\ req[r].pc = "done"
        /\ req[r].response.status = HTTP_400_BAD_REQUEST
        /\ Len(req[r].response.errors) = 2
        /\ req[r].response.errors[1].service # req[r].response.errors[2].service
        /\ req[r].pk \in carts
        /\ Len(cart_items[req[r].pk]) = 2
        /\ orders = << >>

\* Service.get_discounted_price as the specification gives it, in 1/DecimalScale
EffectivePrice(s) ==
    IF services[s].discounts = NULL
    THEN services[s].price * DecimalScale
    ELSE services[s].price * DecimalScale
            - services[s].price * discounts[services[s].discounts]

\* C8: materializing a valid cart with n items creates one Order, unpaid and
\* of the given customer, and exactly n Order Items, one per Cart Item, each
\* with that item's service, quantity and extra_data and a price equal to
\* the service's effective price at that moment; afterwards the cart and its
\* items are gone.
C8_OrderSnapshotsCart ==
    [][\A r \in Requests :
         LET c == req[r].pk
             items == cart_items[c]
             o == Len(orders) + 1
         IN  ( /\ CreateSaveBy(r)
               /\ c \in carts
               /\ items # << >>
               /\ FailingItems(items) = {} )
             => ( /\ Len(orders') = o
                  /\ SubSeq(orders', 1, o - 1) = orders
                  /\ orders'[o].status = ORDER_STATUS_UNPAID
                  /\ orders'[o].customer = req[r].user
                  /\ Len(order_items') = o
                  /\ Len(order_items'[o]) = Len(items)
                  /\ \A i \in 1..Len(items) :
                       /\ order_items'[o][i].service = items[i].service
                       /\ order_items'[o][i].quantity = items[i].quantity
                       /\ order_items'[o][i].extra_data = items[i].extra_data
                       /\ order_items'[o][i].price * DecimalScale
                             = EffectivePrice(items[i].service)
                  /\ c \notin carts'
                  /\ cart_items'[c] = << >> )]_vars

\* C9: in every reachable state every Order has at least one Order Item,
\* also when a materialize is interleaved with another materialize of the
\* same cart or with the deletion of the cart or of its items.
C9_EveryOrderHasItems == \A o \in OrderIds : order_items[o] # << >>

\* C10: two concurrent materialize requests for one cart id produce at most
\* one Order.
C10_OneOrderPerCart ==
    \A o1, o2 \in OrderIds : source_cart[o1] = source_cart[o2] => o1 = o2

\* C13: once an order exists, a change of a service's list price, or of the
\* discount attached to it, or of a discount's percent, leaves the price of
\* every Order Item and every order's total (the sum of quantity times the
\* snapshotted price) as they were.
C13_PriceFrozen ==
    [][(services' # services \/ discounts' # discounts) =>
          /\ Len(order_items') = Len(order_items)
          /\ \A o \in OrderIds :
                /\ Len(order_items'[o]) = Len(order_items[o])
                /\ \A i \in 1..Len(order_items[o]) :
                      order_items'[o][i].price = order_items[o][i].price
                /\ get_total_order_price(order_items[o])'
                      = get_total_order_price(order_items[o])]_vars

\* an order holds an item of s1 at 900 although s1 has lost its discount since
C13_Witness ==
    \E o \in OrderIds :
        /\ Len(order_items[o]) = 1
        /\ order_items[o][1].service = "s1"
        /\ order_items[o][1].price = 900
        /\ services["s1"].discounts = NULL
        /\ get_total_order_price(order_items[o]) = 900 * order_items[o][1].quantity

\* C16: materialize with a cart id that resolves to no cart answers 404
\* (NotFound), materialize of a cart without items answers 400; in both cases
\* no Order is created and no cart is changed.
C16_MissingCartNotFound ==
    [][\A r \in Requests :
         (CreateValidateBy(r) /\ customers[req'[r].user].phone_number # NULL) =>
            /\ req'[r].pk \notin carts =>
                  /\ req'[r].response.status = HTTP_404_NOT_FOUND
                  /\ UNCHANGED <<orders, order_items, carts, cart_items>>
            /\ (req'[r].pk \in carts /\ cart_items[req'[r].pk] = << >>) =>
                  /\ req'[r].response.status = HTTP_400_BAD_REQUEST
                  /\ UNCHANGED <<orders, order_items, carts, cart_items>>]_vars

\* C17: materialize checks the items against the fields that are required
\* when it runs: validate() passes exactly when the cart has items and every
\* item has a non-blank value for each field its service requires now; when an
\* item lacks one (the field became required after the item was accepted) the
\* request is refused, no order is created and the cart keeps its items.
C17_RevalidatedAtMaterialize ==
    [][\A r \in Requests :
         LET items == cart_items[req'[r].pk]
         IN  ( /\ CreateValidateBy(r)
               /\ customers[req'[r].user].phone_number # NULL
               /\ req'[r].pk \in carts ) =>
               /\ req'[r].pc = "validated"
                     <=> (items # << >> /\ FailingItems(items) = {})
               /\ FailingItems(items) # {} =>
                     /\ req'[r].pc = "done"
                     /\ req'[r].response.status = HTTP_400_BAD_REQUEST
                     /\ req'[r].response.detail = "fields_missing"
                     /\ UNCHANGED <<orders, order_items, carts, cart_items>>]_vars

\* one field was made required after the cart's only item was accepted
\* without it, and the materialize of the cart was refused; the cart is kept
C17_Witness ==
    \E r \in Requests :
        /\ admin_edits = 1
        /\ req[r].op = "create" /\ req[r].pc = "done"
        /\ req[r].response.detail = "fields_missing"
        /\ Len(req[r].response.errors) = 1
        /\ req[r].pk \in carts
        /\ Len(cart_items[req[r].pk]) = 1
        /\ Lacking(cart_items[req[r].pk][1]) # {}
        /\ orders = << >>

\* C14: for every service that can be stored, the effective price shown is
\* the list price times (1 - percent / 100) when a discount is attached and
\* the list price when none is, and it is never below 0.
C14_EffectivePrice ==
    \A r \in Requests :
        (req[r].op = "retrieve" /\ req[r].pc = "done") =>
            /\ req[r].response.discounted_price = EffectivePrice(req[r].response.id)
            /\ req[r].response.discounted_price >= 0

\* the order total from the snapshotted prices of the order's items
SnapshotTotal(o) ==
    SumSeq([i \in 1..Len(order_items[o]) |->
              order_items[o][i].quantity * order_items[o][i].price])

\* the request has sent an amount to the gateway for an order
SentAmount(r, op) == req[r].op = op /\ req[r].sent /\ req[r].pk \in OrderIds

\* C18: the amount a Pay sends to the gateway is 10 times the order total
\* from the snapshotted item prices (a total of 900 gives 9000), and the
\* amount a Callback sends in its verify request on the same order is the
\* same amount, whatever was changed in services and discounts meanwhile.
C18_AmountFromSnapshot ==
    /\ \A r \in Requests :
          SentAmount(r, "pay") =>
             /\ req[r].amount = 10 * SnapshotTotal(req[r].pk)
             /\ SnapshotTotal(req[r].pk) = 900 => req[r].amount = 9000
    /\ \A r1, r2 \in Requests :
          (SentAmount(r1, "pay") /\ SentAmount(r2, "callback") /\ req[r1].pk = req[r2].pk)
             => req[r2].amount = req[r1].amount

\* a Pay sent 9000 for the order of total 900, s1 then lost its discount, and
\* a Callback on the order has sent its verify request with 9000
C18_Witness ==
    \E r1, r2 \in Requests :
        /\ SentAmount(r1, "pay") /\ req[r1].pc = "done"
        /\ req[r1].response.status = HTTP_200_OK
        /\ req[r1].amount = 9000
        /\ services["s1"].discounts = NULL
        /\ order_items[req[r1].pk][1].service = "s1"
        /\ SentAmount(r2, "callback") /\ req[r2].pk = req[r1].pk
        /\ req[r2].pc = "await_verify"
        /\ req[r2].amount = 9000

\* C19: a Pay interleaved with a Callback on the same order never changes
\* the order's status (the write of the authority leaves the status a
\* callback committed meanwhile), and no write of a Callback changes the
\* payment_authority a Pay stored meanwhile.
C19_InterleavedWritesKeepColumns ==
    [][\A r \in Requests :
         /\ \A result \in RequestResults :
               PayAnswerBy(r, result) =>
                  orders'[req[r].pk].status = orders[req[r].pk].status
         /\ (CallbackRequestBy(r) /\ req'[r].pk \in OrderIds) =>
               orders'[req'[r].pk].payment_authority = orders[req'[r].pk].payment_authority
         /\ \A result \in VerifyResults :
               CallbackAnswerBy(r, result) =>
                  orders'[req[r].pk].payment_authority
                     = orders[req[r].pk].payment_authority]_vars

\* C20: in every reachable state an order that is paid has a payment_authority:
\* no Callback makes an order paid whose payment_authority was never set.
C20_PaidHasAuthority ==
    \A o \in OrderIds :
        orders[o].status = ORDER_STATUS_PAID => orders[o].payment_authority # NULL

\* ---------------------------------------------------- claims of the cart
\* the step is the first step of an add request, or an update request, that
\* worker r takes
AddValidateBy(r) == NextWorker(r) /\ req'[r].op = "add" /\ req'[r] # req[r]
UpdateBy(r) == NextWorker(r) /\ req'[r].op = "update" /\ req'[r] # req[r]

\* the step is the second step of the add request on worker r
AddCreateBy(r) == req[r].op = "add" /\ req[r].pc = "validated" /\ AddCartItemCreate(r)

\* the rows of the cart that hold this service and this extra_data
SameItems(items, service, extra_data) ==
    {k \in 1..Len(items) : items[k].service = service /\ items[k].extra_data = extra_data}

\* no two items of a cart have the same service and the same extra_data
UniqueItems ==
    \A c \in CartIds : \A i, j \in 1..Len(cart_items[c]) :
        ( /\ cart_items[c][i].service = cart_items[c][j].service
          /\ cart_items[c][i].extra_data = cart_items[c][j].extra_data ) => i = j

\* C11: an add-item finds the item of the cart with its service and its
\* cleaned extra_data, if there is one.  When it found one (and no other
\* request has written the item since) it increases that item's quantity by
\* the added quantity and creates no row; when there is none it creates a new
\* row with the added quantity.  No two items of a cart ever have the same
\* service and the same extra_data.
C11_AddMergesEqualItems ==
    [][ /\ \A r \in Requests :
             LET found == req'[r].item
                 items == cart_items[req'[r].pk]
             IN  (AddValidateBy(r) /\ req'[r].pc = "validated") =>
                    found \in SameItems(items, req'[r].instance.service, req'[r].extra_data)
                                 \cup {0}
                    /\ (found = 0 =>
                          SameItems(items, req'[r].instance.service, req'[r].extra_data) = {})
        /\ \A r \in Requests :
             LET me == req[r]
                 items == cart_items[me.pk]
                 same == SameItems(items, me.instance.service, me.extra_data)
             IN  AddCreateBy(r) =>
                   /\ ( /\ me.item \in same
                        /\ items[me.item].quantity + me.quantity = me.instance.quantity )
                      => /\ cart_items'[me.pk] =
                              [items EXCEPT ![me.item].quantity = @ + me.quantity]
                         /\ req'[r].response.status = HTTP_201_CREATED
                   /\ (same = {} /\ me.item = 0)
                      => /\ cart_items'[me.pk] =
                              Append(items, [service |-> me.instance.service,
                                             quantity |-> me.quantity,
                                             extra_data |-> me.extra_data])
                         /\ req'[r].response.status = HTTP_201_CREATED
        /\ UniqueItems' ]_vars

\* an add-item has raised the quantity of an item to 2 in a cart that also
\* holds an item of the same service with other extra_data
C11_Witness ==
    \E r \in Requests, c \in CartIds :
        /\ req[r].op = "add" /\ req[r].pc = "done" /\ req[r].pk = c
        /\ req[r].response.detail = "quantity_increased"
        /\ Len(cart_items[c]) = 2
        /\ cart_items[c][1].service = cart_items[c][2].service
        /\ cart_items[c][1].extra_data # cart_items[c][2].extra_data
        /\ cart_items[c][1].quantity = 2

\* C12: whatever other add-item ran between the read and the write of an
\* add-item, its write leaves exactly one item of its service and extra_data,
\* with the quantity that item had just before the write (0 when there was
\* none) plus the added quantity: no update is lost, no request fails on a
\* duplicate row.
C12_ConcurrentAddsSum ==
    [][\A r \in Requests :
         LET me == req[r]
             items == cart_items[me.pk]
             same == SameItems(items, me.instance.service, me.extra_data)
         IN  AddCreateBy(r) =>
               IF same # {}
               THEN \E k \in same :
                       cart_items'[me.pk] = [items EXCEPT ![k].quantity = @ + me.quantity]
               ELSE cart_items'[me.pk] =
                       Append(items, [service |-> me.instance.service,
                                      quantity |-> me.quantity,
                                      extra_data |-> me.extra_data])]_vars

\* the fields of the service that are required now and for which the
\* extra_data has no value with a character that is no space
LackingIn(service, extra_data) ==
    {f \in service_fields[service] : f.is_required /\ ~HasValue(extra_data, f.field_name)}

\* every key of the extra_data is the name of a field the service declares
OnlyDeclaredKeys(service, extra_data) ==
    \A k \in DOMAIN extra_data : \E f \in service_fields[service] : f.field_name = k

\* C15: the extra_data an add-item or update-item is accepted with, and then
\* stores, has only keys its service declares and a non-blank value for every
\* field the service requires at that moment; an add-item or update-item that
\* is refused answers an error and leaves the cart's items unchanged.
C15_ExtraDataValidated ==
    [][\A r \in Requests :
         /\ (AddValidateBy(r) /\ req'[r].pc = "done") =>
               /\ req'[r].response.status = HTTP_400_BAD_REQUEST
               /\ cart_items' = cart_items
         /\ (AddValidateBy(r) /\ req'[r].pc = "validated") =>
               /\ OnlyDeclaredKeys(req'[r].instance.service, req'[r].instance.extra_data)
               /\ LackingIn(req'[r].instance.service, req'[r].instance.extra_data) = {}
               /\ cart_items' = cart_items
         /\ AddCreateBy(r) =>
               \/ /\ req'[r].response.status = HTTP_500_INTERNAL_SERVER_ERROR
                  /\ cart_items' = cart_items
               \/ /\ req'[r].response.status = HTTP_201_CREATED
                  /\ \E k \in 1..Len(cart_items'[req[r].pk]) :
                        /\ cart_items'[req[r].pk][k].service = req[r].instance.service
                        /\ cart_items'[req[r].pk][k].extra_data = req[r].instance.extra_data
                        /\ \A j \in 1..Len(cart_items[req[r].pk]) :
                              j # k => cart_items'[req[r].pk][j] = cart_items[req[r].pk][j]
         /\ (UpdateBy(r) /\ req'[r].response.status # HTTP_200_OK) =>
               /\ req'[r].response.status
                     \in {HTTP_400_BAD_REQUEST, HTTP_404_NOT_FOUND, HTTP_500_INTERNAL_SERVER_ERROR}
               /\ cart_items' = cart_items
         /\ (UpdateBy(r) /\ req'[r].response.status = HTTP_200_OK) =>
               LET c == req'[r].pk
               IN  /\ Len(cart_items'[c]) = Len(cart_items[c])
                   /\ \E i \in 1..Len(cart_items[c]) :
                         /\ cart_items'[c][i].service = cart_items[c][i].service
                         /\ OnlyDeclaredKeys(cart_items[c][i].service, cart_items'[c][i].extra_data)
                         /\ LackingIn(cart_items[c][i].service, cart_items'[c][i].extra_data) = {}
                         /\ \A j \in 1..Len(cart_items[c]) :
                               j # i => cart_items'[c][j] = cart_items[c][j] ]_vars

\* while the field of s2 is required, the cart holds an item of s2 with the
\* field's value and without the undeclared key of the payload, and an
\* update-item of the cart was refused for the missing field
C15_Witness ==
    \E r \in Requests, c \in CartIds :
        /\ \A f \in service_fields["s2"] : f.is_required
        /\ Len(cart_items[c]) = 1
        /\ cart_items[c][1].service = "s2"
        /\ cart_items[c][1].extra_data = (FieldUserName :> SomeText)
        /\ req[r].op = "update" /\ req[r].pc = "done" /\ req[r].pk = c
        /\ req[r].response.status = HTTP_400_BAD_REQUEST
        /\ req[r].response.detail = "fields_missing"

\* ------------------------------------------------ claims of the phone flow
\* the steps of a verify-phone request, told by the request's position
VerifyBeginsBy(r) ==
    /\ Free(r)
    /\ req'[r].op = "verify_phone"
    /\ req'[r].pc = "get_pending"

VerifySaveBy(r) ==
    /\ req[r].op = "verify_phone"
    /\ req[r].pc = "decide"
    /\ req'[r].pc # "decide"

VerifyDeleteCodeBy(r) ==
    /\ req[r].op = "verify_phone"
    /\ req[r].pc = "delete_code"
    /\ req'[r].pc = "delete_pending"

VerifyAnswersBy(r) ==
    /\ req[r].op = "verify_phone"
    /\ req[r].pc = "delete_pending"
    /\ req'[r].pc = "done"

\* the request read this entry of the cache
ReadFrom(entry, key) ==
    IF key \in DOMAIN cache
    THEN entry.found /\ entry.value = cache[key]
    ELSE ~entry.found

\* the cache without these keys, the other keys as they were
Without(keys) == [k \in DOMAIN cache \ keys |-> cache[k]]

\* C21: a verify-phone request reads the code and the pending number stored
\* under its user's keys; it writes the customer only when the code it was
\* sent equals the code it read and it read a pending number, and then sets
\* the phone number to that pending number and the verified flag; after the
\* write it deletes both keys and answers 200, and both keys are absent when
\* no other request of the user ran meanwhile; when it read no code, another
\* code or no pending number it answers 400 and leaves customers and cache
\* unchanged, so the same code sent again is refused.
C21_VerifyPhoneSetsNumber ==
    [][\A r \in Requests :
         LET me == req[r]
             user == req'[r].user
         IN  /\ VerifyBeginsBy(r) =>
                   /\ ReadFrom(req'[r].stored_code, PhoneVerifyKey(user))
                   /\ customers' = customers /\ cache' = cache
             /\ (me.op = "verify_phone" /\ me.pc = "get_pending" /\ req'[r].pc = "decide") =>
                   /\ ReadFrom(req'[r].pending_phone, PendingPhoneKey(user))
                   /\ customers' = customers /\ cache' = cache
             /\ (VerifySaveBy(r) /\ req'[r].pc = "delete_code") =>
                   /\ me.stored_code.found /\ me.code = me.stored_code.value
                   /\ me.pending_phone.found
                   /\ customers'[user].phone_number \in PhoneNumbers
                   /\ PhoneStr(customers'[user].phone_number) = me.pending_phone.value
                   /\ customers'[user].is_phone_verified
                   /\ \A other \in DOMAIN customers \ {user} :
                         customers'[other] = customers[other]
                   /\ cache' = cache
             /\ (VerifySaveBy(r) /\ req'[r].pc = "done") =>
                   /\ customers' = customers /\ cache' = cache
                   /\ req'[r].response.status
                         \in {HTTP_400_BAD_REQUEST, HTTP_500_INTERNAL_SERVER_ERROR}
                   /\ (~me.stored_code.found \/ ~me.pending_phone.found
                          \/ me.code # me.stored_code.value) =>
                         req'[r].response.status = HTTP_400_BAD_REQUEST
             /\ VerifyDeleteCodeBy(r) =>
                   /\ cache' = Without({PhoneVerifyKey(user)})
                   /\ customers' = customers
             /\ VerifyAnswersBy(r) =>
                   /\ cache' = Without({PendingPhoneKey(user)})
                   /\ me.alone => PhoneVerifyKey(user) \notin DOMAIN cache'
                   /\ customers' = customers
                   /\ req'[r].response.status = HTTP_200_OK ]_vars

\* the customer's number was set to the pending number and marked verified
\* by a request answered 200, both keys of the customer are gone, and the
\* request that came after it was refused
C21_Witness ==
    \E r, again \in Requests :
        /\ req[r].op = "verify_phone" /\ req[r].pc = "done"
        /\ req[r].response.status = HTTP_200_OK
        /\ req[again].op = "verify_phone" /\ req[again].pc = "done"
        /\ req[again].response.status = HTTP_400_BAD_REQUEST
        /\ req[again].response.detail = "invalid_or_expired"
        /\ customers[PhoneClient] = [phone_number |-> "0935", is_phone_verified |-> TRUE]
        /\ PhoneVerifyKey(PhoneClient) \notin DOMAIN cache
        /\ PendingPhoneKey(PhoneClient) \notin DOMAIN cache

====
